---- MODULE Spec2Model ----
(***************************************************************************)
(* The representative-modification pipeline of policards                   *)
(* (src/modify_reps.py): update_endyear, add_tenure, normalize_name and    *)
(* only_current applied to the table of member-term records.               *)
(*                                                                         *)
(* A table (pandas DataFrame) is a sequence of records, one per row.  A    *)
(* nullable numeric cell is a sequence of length at most one: <<>> is      *)
(* NaN / <NA> (also: the column has not been created yet), <<v>> is the    *)
(* number v.  A null string cell is the string NoneStr.  Every row keeps   *)
(* its DataFrame index label in the field "index".  The loaded table has   *)
(* at least one row and an endYear column (some cells of it may be NaN);   *)
(* startYear is an integer in every row.                                   *)
(***************************************************************************)
EXTENDS Integers, Sequences, FiniteSets, TLC

VARIABLES year, input, prev, df, pc

\* get_congress_members: the API's answers to the successive page requests, the
\* max_members argument, the loop's locals and the position in the function
VARIABLES pages, max_members, all_members_data, current_offset, fpc

pipeVars == <<year, input, prev, df, pc>>

fetchVars == <<pages, max_members, all_members_data, current_offset, fpc>>

vars == <<year, input, prev, df, pc, pages, max_members, all_members_data, current_offset, fpc>>

----------------------------------------------------------------------------
(* Bounds of the model *)

MaxRows == 3

MaxTermRows == 2

MaxNameRows == 1

MaxPages == 3

MaxPageMembers == 2

MaxTokens == 3

FirstYear == 2019

YearSpan == 6

----------------------------------------------------------------------------
(* Program constants *)

HouseTerm == 2

SenateTerm == 6

limit_per_page == 250

House == "House of Representatives"

Senate == "Senate"

NoneStr == "<None>"

NaN == <<>>

IsNa(x) == x = <<>>

Val(x) == x[1]

----------------------------------------------------------------------------
(* update_endyear *)

\* np.where(df['endYear'].isna(), "yes", "no")
CurrentMemberFlipped(r) == IF IsNa(r.endYear) THEN "no" ELSE "yes"

CurrentMemberSticky(r) ==
    IF IsNa(r.endYear) \/ r.current_member = "yes" THEN "yes" ELSE "no"

CurrentMemberOf(r) == IF IsNa(r.endYear) THEN "yes" ELSE "no"

SetCurrentMember(rows) ==
    [i \in 1..Len(rows) |-> [rows[i] EXCEPT !.current_member = CurrentMemberOf(rows[i])]]

\* year + L - (year - df['startYear']) % L   (numpy remainder: sign of the divisor)
TermEndStartPlus(y, startYear, L) == startYear + L

TermEndAtOrAfter(y, startYear, L) == y + ((startYear - y) % L)

TermEnd(y, startYear, L) == y + L - ((y - startYear) % L)

\* (df['endYear'].isna()) & (df['chamber'] == ch)
FillCond(r, ch) == IsNa(r.endYear) /\ r.chamber = ch

\* df['endYear'] = np.where(cond, year + L - (year - startYear) % L, df['endYear'])
FillEndYear(rows, y, ch, L) ==
    [i \in 1..Len(rows) |->
        IF FillCond(rows[i], ch)
        THEN [rows[i] EXCEPT !.endYear = <<TermEnd(y, rows[i].startYear, L)>>]
        ELSE rows[i]]

\* df['endYear'].astype(int) raises on a NaN cell
AstypeIntNeverRaises(rows) == FALSE

AstypeIntRaises(rows) == \E i \in 1..Len(rows) : IsNa(rows[i].endYear)

\* the table as update_endyear leaves it (mutated in place, also when astype raises)
UpdateEndyearRows(rows, y) ==
    FillEndYear(FillEndYear(SetCurrentMember(rows), y, House, HouseTerm), y, Senate, SenateTerm)

----------------------------------------------------------------------------
(* add_tenure *)

\* df['duration'] = df['endYear'] - df['startYear']
SetDuration(rows) ==
    [i \in 1..Len(rows) |->
        [rows[i] EXCEPT !.duration =
            IF IsNa(rows[i].endYear) THEN NaN ELSE <<Val(rows[i].endYear) - rows[i].startYear>>]]

\* Series.rank(ascending=False, method='min'): sort descending, a value's rank
\* is the first position of its tie group
SortedDesc(vals) == SortSeq(vals, LAMBDA a, b : a > b)

RankDense(vals, v) == Cardinality({vals[j] : j \in {k \in 1..Len(vals) : vals[k] > v}}) + 1

RankMin(vals, v) ==
    LET s == SortedDesc(vals)
    IN  CHOOSE k \in 1..Len(s) : s[k] = v /\ \A j \in 1..(k-1) : s[j] # v

\* the columns of each groupby; the whole-column rank of line 62 groups by none
NoCols == <<>>

PartyColsIgnored == <<>>

PartyCols == <<"partyName">>

CurrentColsIgnored == <<>>

CurrentCols == <<"current_member">>

CurrentPartyCols == <<"current_member", "partyName">>

PartyCurrentCols == <<"partyName", "current_member">>

\* a row's group key, and whether it holds a null (pandas groupby drops such rows)
GroupKey(cols, r) == [c \in 1..Len(cols) |-> r[cols[c]]]

KeyNull(cols, r) == \E c \in 1..Len(cols) : r[cols[c]] = NoneStr

\* the durations of the rows of r's group, in table order
GroupDurations(rows, cols, r) ==
    LET members == SelectSeq(rows, LAMBDA q : GroupKey(cols, q) = GroupKey(cols, r))
    IN  [j \in 1..Len(members) |-> Val(members[j].duration)]

\* df.groupby(cols)['duration'].rank(ascending=False, method='min'); NaN for a null key
GroupRank(rows, cols, r) ==
    IF KeyNull(cols, r) THEN NaN
    ELSE <<RankMin(GroupDurations(rows, cols, r), Val(r.duration))>>

\* df.groupby(cols)['bioguideID'].transform('count'): the non-null cells of the group
GroupCount(rows, cols, r) ==
    IF KeyNull(cols, r) THEN NaN
    ELSE <<Len(SelectSeq(rows, LAMBDA q : /\ GroupKey(cols, q) = GroupKey(cols, r)
                                          /\ q.bioguideID # NoneStr))>>

\* np.where(df['current_member']=="yes", rank, np.nan)
WhereCurrentAlways(r, v) == v

WhereCurrent(r, v) == IF r.current_member = "yes" THEN v ELSE NaN

\* lines 59-62: duration and tenure_all_time
AddTenureHead(rows) ==
    LET d == SetDuration(rows)
    IN  [i \in 1..Len(d) |-> [d[i] EXCEPT !.tenure_all_time = GroupRank(d, NoCols, d[i])]]

\* line 63: .astype(int) of the per-party rank raises when a rank is NaN
PartyRankRaises(rows) == \E i \in 1..Len(rows) : IsNa(GroupRank(rows, PartyCols, rows[i]))

\* lines 63-73
AddTenureTail(d) ==
    [i \in 1..Len(d) |->
        [d[i] EXCEPT
            !.tenure_all_time_party = GroupRank(d, PartyCols, d[i]),
            !.tenure_current = WhereCurrent(d[i], GroupRank(d, CurrentCols, d[i])),
            !.tenure_current_party = WhereCurrent(d[i], GroupRank(d, CurrentPartyCols, d[i])),
            !.party_all_time_count = GroupCount(d, PartyCols, d[i]),
            !.party_current_count = GroupCount(d, PartyCurrentCols, d[i])]]

----------------------------------------------------------------------------
(* normalize_name: a name is a sequence of characters *)

\* first position of the separator ", " in s, 0 when there is none
FindSep(s) ==
    LET hits == {k \in 1..(Len(s) - 1) : s[k] = "," /\ s[k+1] = " "}
    IN  IF hits = {} THEN 0 ELSE CHOOSE k \in hits : \A j \in hits : k <= j

RECURSIVE Split(_)
\* str.split(', ')
Split(s) ==
    LET k == FindSep(s)
    IN  IF k = 0 THEN <<s>>
        ELSE <<SubSeq(s, 1, k - 1)>> \o Split(SubSeq(s, k + 2, Len(s)))

\* [::-1]
ReversedFirstTwo(t) == IF Len(t) < 2 THEN t ELSE <<t[2], t[1]>> \o SubSeq(t, 3, Len(t))

Reversed(t) == [i \in 1..Len(t) |-> t[Len(t) + 1 - i]]

RECURSIVE Join(_)
\* ' '.join(tokens)
Join(t) ==
    IF Len(t) = 0 THEN <<>>
    ELSE IF Len(t) = 1 THEN t[1]
    ELSE t[1] \o <<" ">> \o Join(Tail(t))

NormalizeNameRows(rows) ==
    [i \in 1..Len(rows) |-> [rows[i] EXCEPT !.name = Join(Reversed(Split(rows[i].name)))]]

----------------------------------------------------------------------------
(* only_current *)

\* df[df['current_member']=="yes"]
OnlyCurrentRowsKeepAll(rows) == rows

OnlyCurrentRows(rows) == SelectSeq(rows, LAMBDA r : r.current_member = "yes")

----------------------------------------------------------------------------
(* create_card: which of the three term lines the card prints *)

\* if endYear - 1 > today: ... elif endYear - 1 < today: ... else: ...
CardBranch(endYear, today) ==
    IF endYear - 1 > today THEN "re-election in"
    ELSE IF endYear - 1 < today THEN "closed range"
    ELSE "re-election this year"

----------------------------------------------------------------------------
(* get_congress_members (src/gen_reps_json.py) *)

\* the except clauses of the loop, by the exception requests.get, raise_for_status
\* or response.json raised
ErrorKinds ==
    {"HTTPError", "HTTPError 429", "ConnectionError", "Timeout", "RequestException",
     "JSONDecodeError"}

\* an answer: a page with a 'members' list and maybe a 'next' link, a JSON body
\* without 'members', or an exception
Responses ==
    [kind : {"ok"}, members : 0..MaxPageMembers, next : BOOLEAN]
        \cup [kind : {"no members"} \cup ErrorKinds, members : {0}, next : {FALSE}]

\* the answer to the request at this offset
ResponseAt(offset) == pages[(offset \div limit_per_page) + 1]

\* data['members'] of the page requested at offset
NewMembers(offset) == [j \in 1..ResponseAt(offset).members |-> <<offset, j>>]

\* max_members is not None and len(all_members_data) >= max_members
ReachedMax(members) == ~IsNa(max_members) /\ Len(members) >= Val(max_members)

\* the list the loop leaves behind after the answer at current_offset
AfterPage(r) ==
    IF r.kind = "ok" THEN all_members_data \o NewMembers(current_offset) ELSE all_members_data

\* all_members_data[:max_members] when the list is longer than max_members
Truncated(members) ==
    IF ~IsNa(max_members) /\ Len(members) > Val(max_members)
    THEN SubSeq(members, 1, Val(max_members))
    ELSE members

\* one pass of the while loop: request, then extend and paginate, or break
FetchPage ==
    /\ fpc = "fetching"
    /\ LET r == ResponseAt(current_offset)
           more == r.kind = "ok" /\ ~ReachedMax(AfterPage(r)) /\ r.next
       IN  /\ all_members_data' = AfterPage(r)
           /\ current_offset' = IF more THEN current_offset + limit_per_page ELSE current_offset
           /\ fpc' = IF more THEN "fetching" ELSE "broke"
    /\ UNCHANGED <<pages, max_members>>
    /\ UNCHANGED pipeVars

\* lines 210-217: truncate and return
ReturnMembers ==
    /\ fpc = "broke"
    /\ all_members_data' = Truncated(all_members_data)
    /\ fpc' = "returned"
    /\ UNCHANGED <<pages, max_members, current_offset>>
    /\ UNCHANGED pipeVars

\* the pipeline specifications do not fetch
FetchIdle ==
    /\ pages = <<>>
    /\ max_members = NaN
    /\ all_members_data = <<>>
    /\ current_offset = 0
    /\ fpc = "idle"

\* the last page the model answers has no 'next' link
InitFetch ==
    /\ pages \in [1..MaxPages -> Responses]
    /\ ~pages[MaxPages].next
    /\ max_members \in {NaN, <<1>>, <<MaxPageMembers + 1>>}
    /\ all_members_data = <<>>
    /\ current_offset = 0
    /\ fpc = "fetching"
    /\ year = FirstYear + YearSpan
    /\ input = <<>>
    /\ prev = <<>>
    /\ df = <<>>
    /\ pc = "idle"

NextFetch ==
    \/ FetchPage
    \/ ReturnMembers

SpecFetch == InitFetch /\ [][NextFetch]_vars

----------------------------------------------------------------------------
(* The input tables *)

SmithJohn == <<"S", ",", " ", "J">>

\* a row as pd.read_json loads it: the derived columns do not exist yet
Row(i, b, n, p, c, s, e) ==
    [index |-> i, bioguideID |-> b, name |-> n, partyName |-> p, chamber |-> c,
     startYear |-> s, endYear |-> e,
     current_member |-> "", duration |-> NaN,
     tenure_all_time |-> NaN, tenure_all_time_party |-> NaN,
     tenure_current |-> NaN, tenure_current_party |-> NaN,
     party_all_time_count |-> NaN, party_current_count |-> NaN]

Cells(B, N, P, C, S, E) ==
    [bioguideID : B, name : N, partyName : P, chamber : C, startYear : S, endYear : E]

\* the non-empty tables of at most n rows whose cells are drawn from D
Tables(D, n) ==
    UNION {{[i \in 1..k |->
                Row(i, f[i].bioguideID, f[i].name, f[i].partyName, f[i].chamber,
                    f[i].startYear, f[i].endYear)] : f \in [1..k -> D]} : k \in 1..n}

ThisYear == FirstYear + YearSpan

\* House members of two parties or of none, past and ongoing terms, long and short
RankCells ==
    Cells({"B1"}, {SmithJohn}, {"Democratic", "Republican", NoneStr}, {House},
          {ThisYear - 6, ThisYear - 2}, {NaN, <<ThisYear - 1>>})

\* every residue of (year - startYear), before and after the start year,
\* recognised and unrecognised chambers
TermCells ==
    Cells({"B1"}, {SmithJohn}, {"Democratic"}, {House, Senate, "senate", "Delegate"},
          {FirstYear, FirstYear + 2}, {NaN, <<FirstYear + 1>>})

\* rows as flatten_user_terms emits them: user_dict.get('bioguideId') may be None
CountCells ==
    Cells({"B1", NoneStr}, {SmithJohn}, {"Democratic", "Republican"}, {House},
          {ThisYear - 6, ThisYear - 2}, {NaN, <<ThisYear - 1>>})

\* name tokens: a surname, a given name with an inner space, a lone comma
NameTokens == {<<"S">>, <<"J", " ", "Q">>, <<",">>}

TokenSeqs == UNION {[1..n -> NameTokens] : n \in 1..MaxTokens}

RECURSIVE JoinWith(_, _)
\* the tokens of t written one after the other with sep between them
JoinWith(t, sep) ==
    IF Len(t) = 1 THEN t[1] ELSE t[1] \o sep \o JoinWith(Tail(t), sep)

\* the API's names: tokens separated by ", "
NameCells ==
    Cells({"B1"}, {JoinWith(t, <<",", " ">>) : t \in TokenSeqs}, {"Democratic"}, {House},
          {ThisYear - 2}, {NaN})

----------------------------------------------------------------------------
(* The pipeline of modify_reps *)

Init ==
    /\ year = ThisYear
    /\ input \in Tables(RankCells, MaxRows)
    /\ prev = input
    /\ df = input
    /\ pc = "loaded"
    /\ FetchIdle

InitCount ==
    /\ year = ThisYear
    /\ input \in Tables(CountCells, MaxRows)
    /\ prev = input
    /\ df = input
    /\ pc = "loaded"
    /\ FetchIdle

InitName ==
    /\ year = ThisYear
    /\ input \in Tables(NameCells, MaxNameRows)
    /\ prev = input
    /\ df = input
    /\ pc = "loaded"
    /\ FetchIdle

InitTerm ==
    /\ year \in FirstYear..(FirstYear + YearSpan)
    /\ input \in Tables(TermCells, MaxTermRows)
    /\ prev = input
    /\ df = input
    /\ pc = "loaded"
    /\ FetchIdle

\* df = update_endyear(df)
UpdateEndyear ==
    /\ pc = "loaded"
    /\ prev' = df
    /\ df' = UpdateEndyearRows(df, year)
    /\ pc' = IF AstypeIntRaises(UpdateEndyearRows(df, year)) THEN "error" ELSE "normalized"
    /\ UNCHANGED <<year, input>>
    /\ UNCHANGED fetchVars

\* update_endyear applied once more to the table it returned
UpdateEndyearAgain ==
    /\ pc = "normalized"
    /\ prev' = df
    /\ df' = UpdateEndyearRows(df, year)
    /\ pc' = IF AstypeIntRaises(UpdateEndyearRows(df, year)) THEN "error" ELSE "renormalized"
    /\ UNCHANGED <<year, input>>
    /\ UNCHANGED fetchVars

\* df = add_tenure(df)
AddTenure ==
    /\ pc = "normalized"
    /\ prev' = df
    /\ df' = IF PartyRankRaises(AddTenureHead(df))
             THEN AddTenureHead(df)
             ELSE AddTenureTail(AddTenureHead(df))
    /\ pc' = IF PartyRankRaises(AddTenureHead(df)) THEN "error" ELSE "tenured"
    /\ UNCHANGED <<year, input>>
    /\ UNCHANGED fetchVars

\* df = normalize_name(df)
NormalizeName ==
    /\ pc = "tenured"
    /\ prev' = df
    /\ df' = NormalizeNameRows(df)
    /\ pc' = "renamed"
    /\ UNCHANGED <<year, input>>
    /\ UNCHANGED fetchVars

\* df = only_current(df)
OnlyCurrent ==
    /\ pc = "renamed"
    /\ prev' = df
    /\ df' = OnlyCurrentRows(df)
    /\ pc' = "filtered"
    /\ UNCHANGED <<year, input>>
    /\ UNCHANGED fetchVars

Next ==
    \/ UpdateEndyear
    \/ UpdateEndyearAgain
    \/ AddTenure
    \/ NormalizeName
    \/ OnlyCurrent

Spec == Init /\ [][Next]_vars

SpecTerm == InitTerm /\ [][Next]_vars

SpecCount == InitCount /\ [][Next]_vars

SpecName == InitName /\ [][Next]_vars

----------------------------------------------------------------------------
(* Vocabulary of the properties *)

AfterUpdate == {"normalized", "renormalized", "tenured", "renamed", "filtered"}

AfterTenure == {"tenured", "renamed", "filtered"}

Recognised == {House, Senate}

TermLength(ch) == IF ch = House THEN HouseTerm ELSE SenateTerm

\* the table the last call of update_endyear received
LastInput == IF pc = "renormalized" THEN prev ELSE input

\* the whole table add_tenure ranked (only_current drops rows of it afterwards)
Ranked == IF pc = "filtered" THEN prev ELSE df

\* the rows of table T, among those numbered in I, that serve strictly longer than r
Longer(T, I, r) == {i \in I : Val(T[i].duration) > Val(r.duration)}

Rows(T) == 1..Len(T)

SameParty(T, r) == {i \in Rows(T) : T[i].partyName = r.partyName}

Current(T) == {i \in Rows(T) : T[i].current_member = "yes"}

TypeOK ==
    /\ pc \in {"idle", "loaded", "normalized", "renormalized", "tenured", "renamed",
               "filtered", "error"}
    /\ fpc \in {"idle", "fetching", "broke", "returned"}
    /\ Len(df) <= Len(input)

----------------------------------------------------------------------------
C2_EndYearNonNull ==
    pc \in AfterUpdate =>
        \A k \in 1..Len(df) : ~IsNa(df[k].endYear) /\ Val(df[k].endYear) \in Int

\* a returned table that held an unrecognised chamber, an ongoing and a closed term
C2_Witness ==
    /\ pc = "normalized"
    /\ \E i \in 1..Len(input) : ~(input[i].chamber \in Recognised)
    /\ \E i \in 1..Len(input) : IsNa(input[i].endYear)
    /\ \E i \in 1..Len(input) : ~IsNa(input[i].endYear)

\* C3: after update_endyear a record has current_member = "yes" exactly when its
\* endYear was absent at input and "no" when it was present, and add_tenure,
\* normalize_name and only_current leave the value of every record as it was.
C3_CurrentMember ==
    pc # "loaded" =>
        \A k \in 1..Len(df) :
            /\ df[k].current_member \in {"yes", "no"}
            /\ df[k].current_member = "yes" <=> IsNa(LastInput[df[k].index].endYear)

\* the whole pipeline ran over a table of ongoing and closed terms
C3_Witness ==
    /\ pc = "filtered"
    /\ Len(df) >= 1
    /\ Len(df) < Len(input)
    /\ \E i \in 1..Len(prev) : prev[i].current_member = "no"

\* C4 as stated: a second run of update_endyear changes no field of any record,
\* current_member included.
C4_SecondRunNoOp == pc = "renormalized" => df = prev

\* C4 amended: a second run of update_endyear changes no field other than
\* current_member (endYear stays) and sets current_member to "no" everywhere.
C4_SecondRunKeepsEndYear ==
    pc = "renormalized" =>
        /\ Len(df) = Len(prev)
        /\ \A k \in 1..Len(df) : df[k] = [prev[k] EXCEPT !.current_member = "no"]

\* the second run met a record the first run had marked current
C4_Witness ==
    /\ pc = "renormalized"
    /\ \E k \in 1..Len(prev) : prev[k].current_member = "yes" /\ prev[k].chamber = Senate
    /\ \E k \in 1..Len(prev) : prev[k].current_member = "no" /\ prev[k].chamber = House

\* y is the first year from `from` on with (y - startYear) a multiple of L
FirstBoundaryFrom(y, from, startYear, L) ==
    /\ y >= from
    /\ (y - startYear) % L = 0
    /\ \A z \in from..(y - 1) : (z - startYear) % L # 0

\* C5 as stated: for an ongoing House or Senate record and year >= startYear the
\* computed endYear is the smallest term boundary at or after the current year.
C5_BoundaryAtOrAfter ==
    pc = "normalized" =>
        \A k \in 1..Len(df) :
            LET o == input[k]
            IN  (IsNa(o.endYear) /\ o.chamber \in Recognised /\ year >= o.startYear) =>
                    FirstBoundaryFrom(Val(df[k].endYear), year, o.startYear,
                                      TermLength(o.chamber))

\* C5 amended: the computed endYear is the smallest term boundary strictly after
\* the current year.
C5_BoundaryAfter ==
    pc = "normalized" =>
        \A k \in 1..Len(df) :
            LET o == input[k]
            IN  (IsNa(o.endYear) /\ o.chamber \in Recognised /\ year >= o.startYear) =>
                    FirstBoundaryFrom(Val(df[k].endYear), year + 1, o.startYear,
                                      TermLength(o.chamber))

\* the current year is itself a boundary, for a House and for a Senate record
C5_Witness ==
    /\ pc = "normalized"
    /\ \E k \in 1..Len(df) :
        /\ IsNa(input[k].endYear) /\ input[k].chamber = House
        /\ year > input[k].startYear /\ (year - input[k].startYear) % HouseTerm = 0
        /\ df[k].endYear = <<year + HouseTerm>>
    /\ \E k \in 1..Len(df) :
        /\ IsNa(input[k].endYear) /\ input[k].chamber = Senate
        /\ year > input[k].startYear /\ (year - input[k].startYear) % SenateTerm = 0
        /\ df[k].endYear = <<year + SenateTerm>>

\* C6: after update_endyear and add_tenure every record has
\* duration = endYear - startYear and duration >= 0; a negative duration is
\* never stored in the table.
C6_DurationNonNegative ==
    pc \in AfterTenure =>
        \A k \in 1..Len(df) :
            /\ df[k].duration = <<Val(df[k].endYear) - df[k].startYear>>
            /\ Val(df[k].duration) >= 0

\* C7: tenure_all_time is 1 plus the number of records of the whole table with a
\* strictly greater duration; k records tied at rank r make r + k the next rank.
C7_AllTimeRank ==
    pc \in AfterTenure =>
        /\ \A k \in 1..Len(df) :
            df[k].tenure_all_time
                = <<1 + Cardinality(Longer(Ranked, Rows(Ranked), df[k]))>>
        /\ \A k \in 1..Len(Ranked) :
            LET r == Val(Ranked[k].tenure_all_time)
                tied == {i \in 1..Len(Ranked) : Val(Ranked[i].tenure_all_time) = r}
                later == {Val(Ranked[i].tenure_all_time) : i \in 1..Len(Ranked)}
                            \ 0..r
            IN  later # {} =>
                    /\ r + Cardinality(tied) \in later
                    /\ \A x \in later : x >= r + Cardinality(tied)

\* two closed terms tied for longest and a shorter ongoing one: ranks 1, 1, 3
C7_Witness ==
    /\ pc = "tenured"
    /\ Len(df) = 3
    /\ df[1].duration = df[3].duration
    /\ Val(df[2].duration) < Val(df[1].duration)
    /\ df[1].current_member = "no" /\ df[2].current_member = "yes"
    /\ df[1].tenure_all_time = <<1>>
    /\ df[3].tenure_all_time = <<1>>
    /\ df[2].tenure_all_time = <<3>>

\* C8: tenure_all_time_party is 1 plus the number of records of the same
\* partyName, current or not, with a strictly greater duration.
C8_PartyRank ==
    pc \in AfterTenure =>
        \A k \in 1..Len(df) :
            df[k].tenure_all_time_party
                = <<1 + Cardinality(Longer(Ranked, SameParty(Ranked, df[k]), df[k]))>>

\* a record outranked only by a longer term of the other party, and another
\* outranked by a non-current record of its own party
C8_Witness ==
    /\ pc = "tenured"
    /\ \E k, j \in 1..Len(df) :
        /\ df[j].partyName # df[k].partyName
        /\ Val(df[j].duration) > Val(df[k].duration)
        /\ df[k].tenure_all_time_party = <<1>>
        /\ Val(df[k].tenure_all_time) > 1
    /\ \E k, j \in 1..Len(df) :
        /\ df[j].partyName = df[k].partyName
        /\ df[j].current_member = "no" /\ df[k].current_member = "yes"
        /\ Val(df[j].duration) > Val(df[k].duration)
        /\ df[k].tenure_all_time_party = <<2>>

\* C9: after add_tenure, tenure_current and tenure_current_party are null for
\* every record with current_member = "no" and integers for every record with
\* current_member = "yes".
C9_CurrentRanksDefined ==
    pc \in AfterTenure =>
        \A k \in 1..Len(df) :
            IF df[k].current_member = "yes"
            THEN /\ ~IsNa(df[k].tenure_current) /\ Val(df[k].tenure_current) \in Int
                 /\ ~IsNa(df[k].tenure_current_party)
                 /\ Val(df[k].tenure_current_party) \in Int
            ELSE IsNa(df[k].tenure_current) /\ IsNa(df[k].tenure_current_party)

\* a ranked table with current and non-current records
C9_Witness ==
    /\ pc = "tenured"
    /\ \E k \in 1..Len(df) : df[k].current_member = "yes" /\ df[k].tenure_current = <<2>>
    /\ \E k \in 1..Len(df) : df[k].current_member = "no" /\ IsNa(df[k].tenure_current)

\* C10: for a current record, tenure_current is 1 plus the number of current
\* records with a strictly greater duration, and tenure_current_party 1 plus the
\* number of those of the same partyName; non-current records do not count.
C10_CurrentRanks ==
    pc \in AfterTenure =>
        \A k \in 1..Len(df) :
            df[k].current_member = "yes" =>
                /\ df[k].tenure_current
                    = <<1 + Cardinality(Longer(Ranked, Current(Ranked), df[k]))>>
                /\ df[k].tenure_current_party
                    = <<1 + Cardinality(Longer(Ranked,
                            Current(Ranked) \cap SameParty(Ranked, df[k]), df[k]))>>

\* a current record with a longer non-current term in its party and a longer
\* current term in the other party
C10_Witness ==
    /\ pc = "tenured"
    /\ \E k, j, m \in 1..Len(df) :
        /\ df[k].current_member = "yes"
        /\ df[j].current_member = "no" /\ df[j].partyName = df[k].partyName
        /\ Val(df[j].duration) > Val(df[k].duration)
        /\ df[m].current_member = "yes" /\ df[m].partyName # df[k].partyName
        /\ Val(df[m].duration) > Val(df[k].duration)
        /\ df[k].tenure_current = <<2>>
        /\ df[k].tenure_current_party = <<1>>

\* C11: after add_tenure every record's party_current_count is the number of
\* records of the table that share its partyName and its current_member value.
C11_PartyCurrentCount ==
    pc \in AfterTenure =>
        \A k \in 1..Len(df) :
            df[k].party_current_count
                = <<Cardinality({i \in SameParty(Ranked, df[k]) :
                                    Ranked[i].current_member = df[k].current_member})>>

\* C12: after add_tenure every record's party_all_time_count is the number of
\* records of the table sharing its partyName, rows with a null bioguideID
\* included: no row is left out of the count.
C12_PartyAllTimeCount ==
    pc \in AfterTenure =>
        \A k \in 1..Len(df) :
            df[k].party_all_time_count = <<Cardinality(SameParty(Ranked, df[k]))>>

\* C17: in the table modify_reps writes, 1 <= tenure_current_party <=
\* party_current_count, party_current_count is the number of written records of
\* the same partyName, and tenure_current_party is 1 plus the number of written
\* records of that party with a strictly greater duration.
C17_ExportedPartyRank ==
    pc = "filtered" =>
        \A k \in 1..Len(df) :
            /\ 1 <= Val(df[k].tenure_current_party)
            /\ Val(df[k].tenure_current_party) <= Val(df[k].party_current_count)
            /\ df[k].party_current_count = <<Cardinality(SameParty(df, df[k]))>>
            /\ df[k].tenure_current_party
                = <<1 + Cardinality(Longer(df, SameParty(df, df[k]), df[k]))>>

\* the position in table T of the row labelled idx
PosIn(T, idx) == CHOOSE i \in Rows(T) : T[i].index = idx

\* C13: only_current is a pure stable filter: every output record is current,
\* every current input record appears exactly once, the survivors keep their
\* relative order and none of their fields is altered.
C13_StableFilter ==
    pc = "filtered" =>
        /\ \A k \in Rows(df) : df[k].current_member = "yes"
        /\ \A i \in Rows(prev) :
            prev[i].current_member = "yes" =>
                Cardinality({k \in Rows(df) : df[k].index = prev[i].index}) = 1
        /\ \A k \in Rows(df) : \E i \in Rows(prev) : df[k] = prev[i]
        /\ \A k, l \in Rows(df) :
            k < l => PosIn(prev, df[k].index) < PosIn(prev, df[l].index)

\* a non-current record between two different current ones is filtered out
C13_Witness ==
    /\ pc = "filtered"
    /\ Len(prev) = 3 /\ Len(df) = 2
    /\ prev[1].current_member = "yes"
    /\ prev[2].current_member = "no"
    /\ prev[3].current_member = "yes"
    /\ prev[1].duration # prev[3].duration
    /\ df[1] = prev[1] /\ df[2] = prev[3]

\* C15: when the table holds a record with absent endYear whose chamber is not
\* exactly "House of Representatives" or "Senate", update_endyear ends in an
\* error: it returns no table and fills no endYear for that record.
C15_UnrecognisedChamber ==
    (pc # "loaded" /\ \E i \in Rows(input) :
                        IsNa(input[i].endYear) /\ ~(input[i].chamber \in Recognised)) =>
        /\ pc = "error"
        /\ \A k \in Rows(df) :
            (IsNa(input[k].endYear) /\ ~(input[k].chamber \in Recognised)) =>
                IsNa(df[k].endYear)

\* a lower-case "senate" record with absent endYear beside a recognised ongoing one
C15_Witness ==
    /\ pc = "error"
    /\ Len(input) = 2
    /\ input[1].chamber = Senate /\ IsNa(input[1].endYear) /\ ~IsNa(df[1].endYear)
    /\ input[2].chamber = "senate" /\ IsNa(input[2].endYear) /\ IsNa(df[2].endYear)

\* C18: every record modify_reps writes in year Y has Y + 1 <= endYear <= Y + L
\* with (endYear - startYear) a multiple of L, so create_card, run in the same
\* year, never takes its closed-range branch for it.
C18_ExportedTermOpen ==
    pc = "filtered" =>
        \A k \in Rows(df) :
            LET L == TermLength(df[k].chamber)
                e == Val(df[k].endYear)
            IN  /\ df[k].chamber \in Recognised
                /\ year + 1 <= e /\ e <= year + L
                /\ (e - df[k].startYear) % L = 0
                /\ CardBranch(e, year) # "closed range"

\* written records that end next year (re-election this year) and later
C18_Witness ==
    /\ pc = "filtered"
    /\ \E k \in Rows(df) :
        /\ df[k].chamber = House /\ df[k].endYear = <<year + 1>>
        /\ CardBranch(Val(df[k].endYear), year) = "re-election this year"
    /\ \E k \in Rows(df) :
        /\ df[k].chamber = Senate /\ Val(df[k].endYear) > year + HouseTerm
        /\ CardBranch(Val(df[k].endYear), year) = "re-election in"

\* C14: normalize_name replaces a name made of the tokens t1, ..., tn separated
\* by ", " with tn ... t1 separated by single spaces, for any n (a single token
\* stays as it is), and modifies no other field.
C14_TokenReversal ==
    pc = "renamed" =>
        \A k \in Rows(df) :
            /\ \A t \in TokenSeqs :
                prev[k].name = JoinWith(t, <<",", " ">>) =>
                    df[k].name = JoinWith([i \in 1..Len(t) |-> t[Len(t) + 1 - i]], <<" ">>)
            /\ df[k] = [prev[k] EXCEPT !.name = df[k].name]

\* "S, J Q, ," becomes ", J Q S"
C14_Witness ==
    /\ pc = "renamed"
    /\ input[1].name = <<"S", ",", " ", "J", " ", "Q", ",", " ", ",">>
    /\ df[1].name = <<",", " ", "J", " ", "Q", " ", "S">>

\* C16: get_congress_members returns an empty list whenever a request, the first
\* or a later one, fails with an HTTP, connection, timeout or decoding error.
C16_EmptyOnError ==
    (fpc = "returned" /\ ResponseAt(current_offset).kind \in ErrorKinds) =>
        all_members_data = <<>>

====
